---- MODULE Spec2Model ----
(***************************************************************************)
(* Skelenox (src/skelenox.py): the sync worker SkelSyncAgent, the applier  *)
(* SkelUtils.execute_comment / execute_rename, the HTTP session            *)
(* SkelConnection and the shutdown path SkelCore.end_skelenox.             *)
(*                                                                         *)
(* Threads: the host's single mutation (main) thread, which runs the       *)
(* analyst's edits, the timer callback, the execute_sync callbacks and     *)
(* end_skelenox; and the SkelSyncAgent worker thread.                      *)
(***************************************************************************)
EXTENDS Integers, Sequences, FiniteSets, TLC

\* ------------------------------------------------------------------ bounds
\* Largest timestamp the server hands out (the epoch is 0).
MaxTs == 2
\* Largest number of annotations (comments plus names) in one fetched batch.
MaxBatch == 2
\* Number of local renames the analyst makes during a run.
MaxEdits == 1

\* ----------------------------------------------------------------- strings
\* A string is a sequence of one-character strings.
SubName == <<"s", "u", "b", "_", "1">>
LocName == <<"l", "o", "c", "_", "1">>
FooName == <<"F", "o", "o">>
BarName == <<"B", "a", "r">>
NoText == <<>>
XText == <<"x">>
YText == <<"y">>

\* str.startswith(prefix)
StartsWith(s, prefix) ==
    /\ Len(s) >= Len(prefix)
    /\ SubSeq(s, 1, Len(prefix)) = prefix

\* prefix in s[:n] : prefix occurs as a substring of the first n characters
InHead(prefix, s, n) ==
    LET head == SubSeq(s, 1, IF Len(s) < n THEN Len(s) ELSE n)
    IN \E i \in 1..Len(head) :
          /\ i + Len(prefix) - 1 <= Len(head)
          /\ SubSeq(head, i, i + Len(prefix) - 1) = prefix

default_values ==
    { <<"s", "u", "b", "_">>, <<"d", "w", "o", "r", "d", "_">>,
      <<"u", "n", "k", "_">>, <<"b", "y", "t", "e", "_">>,
      <<"w", "o", "r", "d", "_">>, <<"l", "o", "c", "_">> }

\* SkelUtils.name_blacklist
name_blacklist(name) ==
    \E value \in default_values : InHead(value, name, Len(value) + 1)

\* The names and comment texts of the model.
Addrs == {"ea"}
LocalNames == {SubName, LocName, FooName, BarName}
RemoteNames == {BarName}
Texts == {XText}

\* --------------------------------------------------------------- timestamps
\* datetime.datetime.fromtimestamp(0)
Epoch == 0
\* The server writes a timestamp as "<stamp>+00:00".
Wire(t) == <<t, "+00:00">>
\* datetime.datetime.strptime(s, "%Y-%m-%dT%H:%M:%S.%f+00:00")
strptime(s) == s[1]
max(a, b) == IF a >= b THEN a ELSE b

\* An annotation as the server returns it.
Annotation(ea, data, t) == [address |-> ea, data |-> data, timestamp |-> Wire(t)]
\* The server stamps an annotation after the epoch, and answers a fetch with
\* the annotations stamped at or after the timestamp asked.
Since(since) == (IF since > Epoch THEN since ELSE Epoch + 1)..MaxTs
CommentAnnotations(since) ==
    { Annotation(ea, d, t) : ea \in Addrs, d \in Texts, t \in Since(since) }
NameAnnotations(since) ==
    { Annotation(ea, d, t) : ea \in Addrs, d \in RemoteNames, t \in Since(since) }
SeqsUpTo(S, n) == UNION { [1..k -> S] : k \in 0..n }

\* ------------------------------------------------------------ SkelConnection
\* A session: is_online, sample_id ("None", "False" or "id") and the state of
\* the httplib connection h_conn: "None" (no object), "idle" (connected, ready
\* for a request), "busy" (a request was started and its response was not
\* read: the next request raises CannotSendRequest), "closed" (an object with
\* no socket; a request on it opens the socket again).
HStates == {"None", "idle", "busy", "closed"}
SampleIds == {"None", "False", "id"}
NewConnection == [is_online |-> FALSE, sample_id |-> "None", h_conn |-> "None"]

\* What the network does to each step of one call, chosen by the environment.
SendOutcomes == {"ok", "err"}
RespOutcomes == {"ok", "err", "badjson"}
SidOutcomes == {"id", "absent", "senderr", "resperr"}
UploadOutcomes == {"ok", "senderr", "resperr"}
Oracles ==
    [send : SendOutcomes, resp : RespOutcomes, retry : SendOutcomes,
     connect : SendOutcomes, sid1 : SidOutcomes, upload : UploadOutcomes,
     sid2 : SidOutcomes]
\* The steps a call on session c can reach: on an idle or closed connection the
\* reconnect path is not taken, and its outcomes are fixed.
OraclesFor(c) ==
    IF c.is_online /\ c.h_conn = "busy"
    THEN { o \in Oracles : o.send = "ok" }
    ELSE { o \in Oracles : /\ o.retry = "ok" /\ o.connect = "ok" /\ o.sid1 = "id"
                           /\ o.upload = "ok" /\ o.sid2 = "id" }
ConnectOracles ==
    { o \in Oracles : o.send = "ok" /\ o.resp = "ok" /\ o.retry = "ok" }

\* SkelConnection.close_connection
close_connection(c) ==
    [is_online |-> FALSE, sample_id |-> "None",
     h_conn |-> IF c.h_conn = "None" THEN "None" ELSE "closed"]

\* self.h_conn.request(method, endpoint, json_data, headers)
h_request(h, outcome) ==
    CASE h = "None" -> [h |-> h, exc |-> "AttributeError", sent |-> 0]
      [] h = "busy" -> [h |-> h, exc |-> "CannotSendRequest", sent |-> 0]
      [] outcome = "err" -> [h |-> "busy", exc |-> "socket.error", sent |-> 0]
      [] OTHER -> [h |-> "busy", exc |-> "none", sent |-> 1]

\* self.h_conn.getresponse(), res.read() and json.loads(data)
h_response(h, outcome) ==
    CASE outcome = "err" -> [h |-> "busy", exc |-> "BadStatusLine"]
      [] outcome = "badjson" -> [h |-> "idle", exc |-> "IOError"]
      [] OTHER -> [h |-> "idle", exc |-> "none"]

\* The result of a call: the session after it, the exception it raised
\* ("none": it returned), the requests it put on the wire (sends), how many of
\* them went out while is_online was false (offline_sends), the
\* close_connection/get_online pairs it ran (reconnects), the times it
\* repeated its own request (retries) and how many of its own h_conn.request
\* calls raised (failed).
Result(c, exc, sends, offline, reconnects, retries, failed) ==
    [conn |-> c, exc |-> exc, sends |-> sends, offline_sends |-> offline,
     reconnects |-> reconnects, retries |-> retries, failed |-> failed]

RECURSIVE poli_request(_, _)
RECURSIVE get_online(_, _)

\* SkelConnection.get_sample_id: every exception is swallowed, False returned.
get_sample_id(c, outcome) ==
    LET o == [send |-> IF outcome = "senderr" THEN "err" ELSE "ok",
              resp |-> IF outcome = "resperr" THEN "err" ELSE "ok",
              retry |-> "err", connect |-> "err", sid1 |-> "senderr",
              upload |-> "senderr", sid2 |-> "senderr"]
        r == poli_request(c, o)
    IN [conn |-> r.conn,
        sid |-> IF r.exc = "none" /\ outcome = "id" THEN "id" ELSE "False",
        sends |-> r.sends, offline_sends |-> r.offline_sends,
        reconnects |-> r.reconnects]

\* SkelConnection.send_sample: a request outside poli_request.
send_sample(c, outcome) ==
    LET q == h_request(c.h_conn, IF outcome = "senderr" THEN "err" ELSE "ok")
        off == IF c.is_online THEN 0 ELSE q.sent
    IN IF q.exc # "none"
       THEN Result([c EXCEPT !.h_conn = q.h], q.exc, 0, 0, 0, 0, 1)
       ELSE IF outcome = "resperr"
       THEN Result([c EXCEPT !.h_conn = "busy"], "BadStatusLine", 1, off, 0, 0, 0)
       ELSE Result([c EXCEPT !.h_conn = "idle"], "none", 1, off, 0, 0, 0)

\* SkelConnection.init_sample_id
init_sample_id(c, o) ==
    IF c.sample_id # "None"
    THEN Result(c, "none", 0, 0, 0, 0, 0)
    ELSE LET g1 == get_sample_id(c, o.sid1)
         IN IF g1.sid = "id"
            THEN Result([g1.conn EXCEPT !.sample_id = "id"], "none",
                        g1.sends, g1.offline_sends, g1.reconnects, 0, 0)
            ELSE LET c1 == [g1.conn EXCEPT !.sample_id = "False"]
                     u == send_sample(c1, o.upload)
                 IN IF u.exc # "none"
                    THEN Result(u.conn, u.exc, g1.sends + u.sends,
                                g1.offline_sends + u.offline_sends,
                                g1.reconnects, 0, 0)
                    ELSE LET g2 == get_sample_id(u.conn, o.sid2)
                         IN Result([g2.conn EXCEPT !.sample_id = g2.sid], "none",
                                   g1.sends + u.sends + g2.sends,
                                   g1.offline_sends + u.offline_sends
                                       + g2.offline_sends,
                                   g1.reconnects + g2.reconnects, 0, 0)

\* SkelConnection.__do_init
do_init(c, o) ==
    IF o.connect = "err"
    THEN Result([c EXCEPT !.h_conn = "closed"], "socket.error", 0, 0, 0, 0, 0)
    ELSE init_sample_id([c EXCEPT !.h_conn = "idle", !.is_online = TRUE], o)

\* SkelConnection.get_online: exc "none" is the return value True, any other
\* the return value False (the exception is logged, not raised).
get_online(c, o) == do_init(c, o)

\* poli_request from getresponse on: the status, the body, json.loads
read_response(c, o, sends, offline, reconnects, retries) ==
    LET p == h_response(c.h_conn, o.resp)
    IN Result([c EXCEPT !.h_conn = p.h], p.exc, sends, offline, reconnects,
              retries, retries)

\* A handler that reconnects and retries once more when the retry raises too.
reconnect_and_retry_again(c, o) ==
    LET g == get_online(close_connection(c), o)
        q2 == h_request(g.conn.h_conn, o.retry)
        c2 == [g.conn EXCEPT !.h_conn = q2.h]
        g3 == get_online(close_connection(c2), o)
        q3 == h_request(g3.conn.h_conn, "ok")
        c3 == [g3.conn EXCEPT !.h_conn = q3.h]
    IN IF q2.exc = "none"
       THEN read_response(c2, o, g.sends + 1, g.offline_sends, 1 + g.reconnects, 1)
       ELSE IF q3.exc = "none"
       THEN read_response(c3, o, g.sends + g3.sends + 1, g.offline_sends,
                          2 + g.reconnects + g3.reconnects, 2)
       ELSE Result(c3, q3.exc, g.sends + g3.sends, g.offline_sends,
                   2 + g.reconnects + g3.reconnects, 2, 3)

\* poli_request, the handler of httplib.CannotSendRequest and the retry:
\* self.close_connection(); self.get_online(); self.h_conn.request(...)
reconnect_and_retry(c, o) ==
    LET g == get_online(close_connection(c), o)
        q2 == h_request(g.conn.h_conn, o.retry)
        c2 == [g.conn EXCEPT !.h_conn = q2.h]
        off == g.offline_sends + (IF g.conn.is_online THEN 0 ELSE q2.sent)
    IN IF q2.exc # "none"
       THEN Result(c2, q2.exc, g.sends, g.offline_sends, 1 + g.reconnects, 1, 2)
       ELSE read_response(c2, o, g.sends + 1, off, 1 + g.reconnects, 1)

\* SkelConnection.poli_request
poli_request(c, o) ==
    IF ~c.is_online
    THEN Result(c, "IOError", 0, 0, 0, 0, 0)
    ELSE LET q1 == h_request(c.h_conn, o.send)
             c1 == [c EXCEPT !.h_conn = q1.h]
         IN IF q1.exc = "CannotSendRequest"
            THEN reconnect_and_retry(c, o)
            ELSE IF q1.exc # "none"
            THEN Result(c1, q1.exc, 0, 0, 0, 0, 1)
            ELSE read_response(c1, o, 1, 0, 0, 0)

\* ----------------------------------------------------------------- SkelUtils
\* The workspace: idc.GetTrueName, idc.Comment and idc.RptCmt of each address.
NonAscii == {"e'"}
\* str.encode('ascii', 'replace')
encode_replace(s) == [i \in 1..Len(s) |-> IF s[i] \in NonAscii THEN "?" ELSE s[i]]
\* str.encode('ascii', 'ignore')
encode_ignore(s) == SelectSeq(s, LAMBDA ch : ch \notin NonAscii)

\* AskYN: 1 yes, 0 no, -1 cancel
Answers == {1, 0, -1}

\* execute_comment comparing with the repeatable comment alone
comment_differs_rpt_only(w, c) ==
    w.rpt[c.address] # c.data

\* execute_comment: the comparison made on the calling thread
comment_differs(w, c) ==
    /\ w.cmt[c.address] # c.data
    /\ w.rpt[c.address] # c.data
\* execute_comment.make_rpt, run by idaapi.execute_sync
make_rpt(w, c) == [w EXCEPT !.rpt[c.address] = encode_replace(c.data)]

\* execute_rename: get_name().startswith("sub_")
rename_forced(w, n) == StartsWith(w.name[n.address], <<"s", "u", "b", "_">>)
\* execute_rename: get_name() != name["data"]
rename_differs(w, n) == w.name[n.address] # n.data
\* sync_ask_rename renaming unless the prompt is cancelled
sync_ask_rename_unless_cancel(w, n, force, answer) ==
    IF force \/ answer # -1
    THEN [w EXCEPT !.name[n.address] = encode_ignore(n.data)]
    ELSE w

\* execute_rename.make_name.sync_ask_rename, run by idaapi.execute_sync
sync_ask_rename(w, n, force, answer) ==
    IF force \/ answer = 1
    THEN [w EXCEPT !.name[n.address] = encode_ignore(n.data)]
    ELSE w

\* --------------------------------------------------------------------- state
VARIABLES
    idb,             \* the workspace: [name, cmt, rpt], each a function of Addrs
    update_event,    \* SkelSyncAgent.update_event
    kill_event,      \* SkelSyncAgent.kill_event
    last_timestamp,  \* SkelSyncAgent.last_timestamp (the watermark)
    skel_conn,       \* SkelSyncAgent.skel_conn
    wpc,             \* where the worker thread is in run / sync_names
    comments,        \* sync_names: the fetched comments
    names,           \* sync_names: the fetched names
    idx,             \* sync_names: index of the annotation being handled
    sync_req,        \* the worker's execute_sync request: "none", "posted", "done"
    mpc,             \* where the mutation thread is
    timer,           \* the update callback is registered
    edits,           \* local renames made by the analyst
    h_rename,        \* the last overwrite made by sync_ask_rename
    handed_ts,       \* timestamps of the annotations handed to the applier
    unhanded_ret,    \* fetched annotations not handed over when sync_names returned
    kill_at,         \* where kill() found the worker: "none" before kill(),
                     \* "blocked" (in update_event.wait(), the event clear), else wpc
    syncs_after_kill,\* sync_names calls started after kill_event was set
    wakes_since_set, \* returns of update_event.wait() since the last set()
    syncs_since_wake,\* sync_names calls since the last return of update_event.wait()
    wexit,           \* how run ended: "running", "return", "exception"
    ap,              \* the applier run alone: [pass, i, once]
    cl,              \* a session driven call by call: the last call's result
    hk,              \* the hooks run alone: the last event and what it pushed
    td,              \* a request racing with the teardown: what came after it
    peers            \* two agents on one server: workspaces, server, watermarks

wsVars == <<idb, edits, h_rename>>
evVars == <<update_event, kill_event, timer>>
snVars == <<last_timestamp, comments, names, idx, handed_ts, unhanded_ret>>
histVars == <<kill_at, syncs_after_kill, wakes_since_set, syncs_since_wake>>
vars == <<idb, update_event, kill_event, last_timestamp, skel_conn, wpc, comments,
          names, idx, sync_req, mpc, timer, edits, h_rename, handed_ts,
          unhanded_ret, kill_at, syncs_after_kill, wakes_since_set,
          syncs_since_wake, wexit, ap, cl, hk, td, peers>>

Workspaces == [name : [Addrs -> {SubName, FooName}],
               cmt : [Addrs -> {NoText}],
               rpt : [Addrs -> {NoText}]]

NoCall == [op |-> "none"]
NoApply == [pass |-> 0]
NoHook == [op |-> "none"]
NoTeardown == [torn |-> FALSE, sent_after |-> FALSE, online_after |-> FALSE]
NoRename == [old |-> NoText]
NoPeers == [on |-> FALSE]
NoComment == [seen |-> FALSE]
Bump(n) == IF n < 2 THEN n + 1 ELSE 2

\* The state after SkelCore.__init__ and SkelCore.run: the agent's session went
\* through setup_config's get_online, the timer is registered
\* (timer_setup_flag), the thread is started and reaches update_event.wait().
Init ==
    /\ idb \in Workspaces
    /\ update_event = FALSE
    /\ kill_event = FALSE
    /\ last_timestamp = Epoch
    /\ \E o \in ConnectOracles : skel_conn = get_online(NewConnection, o).conn
    /\ wpc = "wait"
    /\ comments = <<>>
    /\ names = <<>>
    /\ idx = 0
    /\ sync_req = "none"
    /\ mpc = "idle"
    /\ timer = TRUE
    /\ edits = 0
    /\ h_rename = [old |-> NoText]
    /\ handed_ts = {}
    /\ unhanded_ret = 0
    /\ kill_at = "none"
    /\ syncs_after_kill = 0
    /\ wakes_since_set = 0
    /\ syncs_since_wake = 0
    /\ wexit = "running"
    /\ ap = NoApply
    /\ cl = NoCall
    /\ hk = NoHook
    /\ td = NoTeardown
    /\ peers = NoPeers

\* ------------------------------------------------------- the mutation thread
\* The analyst renames an address (any interactive rename, on the main thread).
analyst_rename ==
    /\ mpc = "idle"
    /\ edits < MaxEdits
    /\ \E ea \in Addrs, n \in LocalNames :
          /\ idb.name[ea] # n
          /\ idb' = [idb EXCEPT !.name[ea] = n]
    /\ edits' = edits + 1
    /\ UNCHANGED <<h_rename, evVars, snVars, histVars, skel_conn, wpc, sync_req,
                   mpc, wexit, ap, cl, hk, td, peers>>

\* A timer whose callback always returns -1: it is unregistered after one tick.
update_return_once == timer' = FALSE

\* setup_timer.update returns -1 (the timer is unregistered) when kill_event
\* is set, self.delay otherwise.
update_return == timer' = ~kill_event

\* setup_timer.update: if not self.update_event.isSet(); an event found set is
\* left alone and the callback returns.
update_check ==
    /\ mpc = "idle"
    /\ timer
    /\ IF update_event
       THEN update_return /\ mpc' = "idle"
       ELSE timer' = timer /\ mpc' = "update_set"
    /\ UNCHANGED <<wsVars, update_event, kill_event, snVars, histVars, skel_conn,
                   wpc, sync_req, wexit, ap, cl, hk, td, peers>>

\* setup_timer.update: self.update_event.set(), then the return.
update_set ==
    /\ mpc = "update_set"
    /\ update_event' = TRUE
    /\ wakes_since_set' = 0
    /\ update_return
    /\ mpc' = "idle"
    /\ UNCHANGED <<wsVars, kill_event, snVars, kill_at, syncs_after_kill,
                   syncs_since_wake, skel_conn, wpc, sync_req, wexit, ap, cl, hk, td, peers>>

\* The callback the worker handed to idaapi.execute_sync runs on the mutation
\* thread: make_rpt for a comment, sync_ask_rename for a name.
sync_callback(force) ==
    \E answer \in Answers :
       LET n == names[idx]
           w == sync_ask_rename(idb, n, force, answer)
       IN /\ idb' = w
          /\ h_rename' = IF force \/ answer = 1
                         THEN [old |-> idb.name[n.address], new |-> n.data,
                               confirmed |-> ~force]
                         ELSE h_rename

execute_sync ==
    /\ mpc = "idle"
    /\ sync_req = "posted"
    /\ \/ /\ wpc = "comment_wait"
          /\ idb' = make_rpt(idb, comments[idx])
          /\ UNCHANGED h_rename
       \/ /\ wpc = "force_wait"
          /\ sync_callback(TRUE)
       \/ /\ wpc = "ask_wait"
          /\ sync_callback(FALSE)
    /\ sync_req' = "done"
    /\ UNCHANGED <<edits, evVars, snVars, histVars, skel_conn, wpc, mpc, wexit,
                   ap, cl, hk, td, peers>>

\* SkelSyncAgent.kill, first statement: self.kill_event.set()
kill_set ==
    /\ kill_event' = TRUE
    /\ kill_at' = IF wpc = "wait" /\ ~update_event THEN "blocked" ELSE wpc

\* kill() without its second statement.
kill_wake_missing == UNCHANGED <<update_event, wakes_since_set>>

\* SkelSyncAgent.kill, second statement: self.update_event.set()
kill_wake ==
    /\ update_event' = TRUE
    /\ wakes_since_set' = 0

\* SkelCore.end_skelenox, statement by statement. Its own session's
\* close_connection and cleanup_hooks come first.
end_skelenox_begin ==
    /\ mpc = "idle"
    /\ mpc' = "end_kill"
    /\ UNCHANGED <<wsVars, evVars, snVars, histVars, skel_conn, wpc, sync_req,
                   wexit, ap, cl, hk, td, peers>>

end_skelenox_kill ==
    /\ mpc = "end_kill"
    /\ kill_set
    /\ mpc' = "end_wake"
    /\ UNCHANGED <<wsVars, update_event, timer, snVars, syncs_after_kill,
                   wakes_since_set, syncs_since_wake, skel_conn, wpc, sync_req,
                   wexit, ap, cl, hk, td, peers>>

end_skelenox_wake ==
    /\ mpc = "end_wake"
    /\ kill_wake
    /\ mpc' = "end_close"
    /\ UNCHANGED <<wsVars, kill_event, timer, snVars, kill_at,
                   syncs_after_kill, syncs_since_wake, skel_conn, wpc, sync_req,
                   wexit, ap, cl, hk, td, peers>>

\* self.skel_sync_agent.skel_conn.close_connection()
end_skelenox_close ==
    /\ mpc = "end_close"
    /\ skel_conn' = close_connection(skel_conn)
    /\ mpc' = "end_join"
    /\ UNCHANGED <<wsVars, evVars, snVars, histVars, wpc, sync_req, wexit, ap, cl, hk, td, peers>>

\* self.skel_sync_agent.join() returns once the worker thread has ended.
end_skelenox_join ==
    /\ mpc = "end_join"
    /\ wpc = "stopped"
    /\ mpc' = "end_done"
    /\ UNCHANGED <<wsVars, evVars, snVars, histVars, skel_conn, wpc, sync_req,
                   wexit, ap, cl, hk, td, peers>>

\* --------------------------------------------------------- the worker thread
\* run: self.update_event.wait()
run_wait ==
    /\ wpc = "wait"
    /\ update_event
    /\ wpc' = "clear"
    /\ wakes_since_set' = Bump(wakes_since_set)
    /\ syncs_since_wake' = 0
    /\ UNCHANGED <<wsVars, evVars, snVars, kill_at, syncs_after_kill,
                   skel_conn, sync_req, mpc, wexit, ap, cl, hk, td, peers>>

\* run without self.update_event.clear()
run_no_clear ==
    /\ wpc = "clear"
    /\ wpc' = "kill_wait"
    /\ UNCHANGED <<wsVars, evVars, snVars, histVars, skel_conn, sync_req, mpc,
                   wexit, ap, cl, hk, td, peers>>

\* run: self.update_event.clear()
run_clear ==
    /\ wpc = "clear"
    /\ update_event' = FALSE
    /\ wpc' = "kill_wait"
    /\ UNCHANGED <<wsVars, kill_event, timer, snVars, histVars, skel_conn,
                   sync_req, mpc, wexit, ap, cl, hk, td, peers>>

\* run: if self.kill_event.wait(timeout): return 0
\* wait returns the flag: set, run returns; clear after the timeout, run goes on
\* to self.sync_names().
kill_wait_ignored == "sync"

kill_wait_next == IF kill_event THEN "stopped" ELSE "sync"

run_kill_wait ==
    /\ wpc = "kill_wait"
    /\ wpc' = kill_wait_next
    /\ wexit' = IF wpc' = "stopped" THEN "return" ELSE wexit
    /\ UNCHANGED <<wsVars, evVars, snVars, histVars, skel_conn, sync_req, mpc,
                   ap, cl, hk, td, peers>>

\* sync_names without its test of is_online.
sync_names_enter_unchecked ==
    /\ wpc = "sync"
    /\ wpc' = "get_comments"
    /\ syncs_after_kill' = IF kill_event THEN Bump(syncs_after_kill)
                           ELSE syncs_after_kill
    /\ syncs_since_wake' = Bump(syncs_since_wake)
    /\ UNCHANGED <<wsVars, evVars, snVars, kill_at, wakes_since_set,
                   skel_conn, sync_req, mpc, wexit, ap, cl, hk, td, peers>>

\* sync_names is entered: if not self.skel_conn.is_online: return False
sync_names_enter ==
    /\ wpc = "sync"
    /\ wpc' = IF skel_conn.is_online THEN "get_comments" ELSE "wait"
    /\ syncs_after_kill' = IF kill_event THEN Bump(syncs_after_kill)
                           ELSE syncs_after_kill
    /\ syncs_since_wake' = Bump(syncs_since_wake)
    /\ UNCHANGED <<wsVars, evVars, snVars, kill_at, wakes_since_set,
                   skel_conn, sync_req, mpc, wexit, ap, cl, hk, td, peers>>

\* A handler that logs the exception and goes on with the loop.
raise_and_continue ==
    /\ wpc' = "wait"
    /\ wexit' = "exception"

\* An exception leaves sync_names and is caught in run: the loop breaks.
raise_in_run ==
    /\ wpc' = "stopped"
    /\ wexit' = "exception"

\* sync_names: comments = self.skel_conn.get_comments(timestamp=self.last_timestamp)
\* The server answers with comments stamped at or after the timestamp asked.
sync_names_get_comments ==
    /\ wpc = "get_comments"
    /\ \E o \in OraclesFor(skel_conn) :
          LET r == poli_request(skel_conn, o)
          IN /\ skel_conn' = r.conn
             /\ IF r.exc = "none"
                THEN /\ comments' \in SeqsUpTo(CommentAnnotations(last_timestamp),
                                               MaxBatch)
                     /\ wpc' = "get_names"
                     /\ wexit' = wexit
                ELSE /\ comments' = <<>>
                     /\ raise_in_run
    /\ names' = <<>>
    /\ UNCHANGED <<wsVars, evVars, last_timestamp, idx, handed_ts, unhanded_ret,
                   histVars, sync_req, mpc, ap, cl, hk, td, peers>>

\* The watermark taken from the last annotation handled.
fold_last(timestamp, last) == strptime(timestamp)

\* The fold of one handled annotation's timestamp into the watermark:
\* self.last_timestamp = max(timestamp, self.last_timestamp)
fold(timestamp, last) == max(strptime(timestamp), last)

\* sync_names returns True once both loops are through.
sync_names_return ==
    /\ wpc' = "wait"
    /\ idx' = 0
    /\ comments' = <<>>
    /\ names' = <<>>

\* sync_names without its second loop.
next_annotation_no_names(is_comment, i) ==
    IF is_comment /\ i < Len(comments)
    THEN /\ wpc' = "comment" /\ idx' = i + 1
         /\ UNCHANGED <<comments, names, unhanded_ret>>
    ELSE /\ sync_names_return
         /\ unhanded_ret' = IF is_comment THEN Len(comments) - i + Len(names)
                            ELSE Len(names) - i

\* The next annotation to handle after comment i (is_comment) or name i.
next_annotation(is_comment, i) ==
    IF is_comment /\ i < Len(comments)
    THEN /\ wpc' = "comment" /\ idx' = i + 1
         /\ UNCHANGED <<comments, names, unhanded_ret>>
    ELSE IF is_comment /\ Len(names) > 0
    THEN /\ wpc' = "name" /\ idx' = 1
         /\ UNCHANGED <<comments, names, unhanded_ret>>
    ELSE IF ~is_comment /\ i < Len(names)
    THEN /\ wpc' = "name" /\ idx' = i + 1
         /\ UNCHANGED <<comments, names, unhanded_ret>>
    ELSE /\ sync_names_return
         /\ unhanded_ret' = IF is_comment THEN Len(comments) - i + Len(names)
                            ELSE Len(names) - i

\* sync_names: names = self.skel_conn.get_names(timestamp=self.last_timestamp)
sync_names_get_names ==
    /\ wpc = "get_names"
    /\ \E o \in OraclesFor(skel_conn) :
          LET r == poli_request(skel_conn, o)
          IN /\ skel_conn' = r.conn
             /\ IF r.exc = "none"
                THEN /\ \E ns \in SeqsUpTo(NameAnnotations(last_timestamp),
                                           MaxBatch - Len(comments)) :
                           /\ names' = ns
                           /\ IF Len(comments) > 0
                              THEN wpc' = "comment" /\ idx' = 1
                              ELSE IF Len(ns) > 0
                              THEN wpc' = "name" /\ idx' = 1
                              ELSE wpc' = "wait" /\ idx' = 0
                     /\ comments' = comments
                     /\ wexit' = wexit
                ELSE /\ names' = <<>>
                     /\ comments' = <<>>
                     /\ idx' = 0
                     /\ raise_in_run
    /\ unhanded_ret' = 0
    /\ UNCHANGED <<wsVars, evVars, last_timestamp, handed_ts, histVars, sync_req,
                   mpc, ap, cl, hk, td, peers>>

\* execute_comment calling idc.MakeRptCmt itself, on the worker thread.
execute_comment_direct ==
    /\ wpc = "comment"
    /\ LET c == comments[idx]
       IN /\ handed_ts' = handed_ts \cup {strptime(c.timestamp)}
          /\ idb' = IF comment_differs(idb, c) THEN make_rpt(idb, c) ELSE idb
          /\ sync_req' = sync_req
          /\ last_timestamp' = fold(c.timestamp, last_timestamp)
          /\ next_annotation(TRUE, idx)
    /\ UNCHANGED <<edits, h_rename, evVars, histVars, skel_conn, mpc, wexit,
                   ap, cl, hk, td, peers>>

\* sync_names: SkelUtils.execute_comment(comment), up to the execute_sync call
execute_comment ==
    /\ wpc = "comment"
    /\ LET c == comments[idx]
       IN /\ handed_ts' = handed_ts \cup {strptime(c.timestamp)}
          /\ IF comment_differs(idb, c)
             THEN /\ sync_req' = "posted"
                  /\ wpc' = "comment_wait"
                  /\ UNCHANGED <<last_timestamp, comments, names, idx,
                                 unhanded_ret>>
             ELSE /\ sync_req' = sync_req
                  /\ last_timestamp' = fold(c.timestamp, last_timestamp)
                  /\ next_annotation(TRUE, idx)
    /\ UNCHANGED <<wsVars, evVars, histVars, skel_conn, mpc, wexit, ap, cl, hk, td, peers>>

\* sync_names: execute_sync has returned; the comment's timestamp is folded.
execute_comment_done ==
    /\ wpc = "comment_wait"
    /\ sync_req = "done"
    /\ sync_req' = "none"
    /\ last_timestamp' = fold(comments[idx].timestamp, last_timestamp)
    /\ next_annotation(TRUE, idx)
    /\ UNCHANGED <<wsVars, evVars, handed_ts, histVars, skel_conn, mpc, wexit,
                   ap, cl, hk, td, peers>>

\* sync_names: SkelUtils.execute_rename(name), its first test:
\* if get_name().startswith("sub_"): make_name(force=True)
execute_rename ==
    /\ wpc = "name"
    /\ LET n == names[idx]
       IN /\ handed_ts' = handed_ts \cup {strptime(n.timestamp)}
          /\ IF rename_forced(idb, n)
             THEN sync_req' = "posted" /\ wpc' = "force_wait"
             ELSE sync_req' = sync_req /\ wpc' = "name_check"
    /\ UNCHANGED <<wsVars, evVars, last_timestamp, comments, names, idx,
                   unhanded_ret, histVars, skel_conn, mpc, wexit, ap, cl, hk, td, peers>>

\* execute_rename: the forced make_name has returned.
execute_rename_forced ==
    /\ wpc = "force_wait"
    /\ sync_req = "done"
    /\ sync_req' = "none"
    /\ wpc' = "name_check"
    /\ UNCHANGED <<wsVars, evVars, snVars, histVars, skel_conn, mpc, wexit, ap, cl, hk, td, peers>>

\* execute_rename, its second test: if get_name() != name["data"]: make_name()
execute_rename_check ==
    /\ wpc = "name_check"
    /\ LET n == names[idx]
       IN IF rename_differs(idb, n)
          THEN /\ sync_req' = "posted"
               /\ wpc' = "ask_wait"
               /\ UNCHANGED <<last_timestamp, comments, names, idx, unhanded_ret>>
          ELSE /\ sync_req' = sync_req
               /\ last_timestamp' = fold(n.timestamp, last_timestamp)
               /\ next_annotation(FALSE, idx)
    /\ UNCHANGED <<wsVars, evVars, handed_ts, histVars, skel_conn, mpc, wexit,
                   ap, cl, hk, td, peers>>

\* sync_names: the asking make_name has returned; the name's timestamp is folded.
execute_rename_done ==
    /\ wpc = "ask_wait"
    /\ sync_req = "done"
    /\ sync_req' = "none"
    /\ last_timestamp' = fold(names[idx].timestamp, last_timestamp)
    /\ next_annotation(FALSE, idx)
    /\ UNCHANGED <<wsVars, evVars, handed_ts, histVars, skel_conn, mpc, wexit,
                   ap, cl, hk, td, peers>>

\* ------------------------------------------------------------- specification
Worker ==
    \/ run_wait
    \/ run_clear
    \/ run_kill_wait
    \/ sync_names_enter
    \/ sync_names_get_comments
    \/ sync_names_get_names
    \/ execute_comment
    \/ execute_comment_done
    \/ execute_rename
    \/ execute_rename_forced
    \/ execute_rename_check
    \/ execute_rename_done

Shutdown ==
    \/ end_skelenox_kill
    \/ end_skelenox_wake
    \/ end_skelenox_close
    \/ end_skelenox_join

Next ==
    \/ analyst_rename
    \/ update_check
    \/ update_set
    \/ execute_sync
    \/ end_skelenox_begin
    \/ Shutdown
    \/ Worker

Spec == Init /\ [][Next]_vars

\* The worker thread is scheduled; the mutation thread runs a callback handed to
\* execute_sync when it is idle, and goes on through end_skelenox once in it.
FairSpec ==
    /\ Spec
    /\ WF_vars(Worker)
    /\ WF_vars(execute_sync)
    /\ WF_vars(Shutdown)

\* ------------------------------------------------- a session, call by call
\* One thread drives one SkelConnection: get_online, requests through
\* poli_request, close_connection, the network answering as it may.
otherVars == <<idb, update_event, kill_event, last_timestamp, wpc, comments,
               names, idx, sync_req, mpc, timer, edits, h_rename, handed_ts,
               unhanded_ret, kill_at, syncs_after_kill, wakes_since_set,
               syncs_since_wake, wexit, hk, td, peers>>

Quiet ==
    /\ update_event = FALSE
    /\ kill_event = FALSE
    /\ last_timestamp = Epoch
    /\ wpc = "wait"
    /\ idx = 0
    /\ sync_req = "none"
    /\ mpc = "idle"
    /\ timer = TRUE
    /\ edits = 0
    /\ h_rename = [old |-> NoText]
    /\ handed_ts = {}
    /\ unhanded_ret = 0
    /\ kill_at = "none"
    /\ syncs_after_kill = 0
    /\ wakes_since_set = 0
    /\ syncs_since_wake = 0
    /\ wexit = "running"
    /\ hk = NoHook

InitConn ==
    /\ Quiet
    /\ td = NoTeardown
    /\ peers = NoPeers
    /\ idb = [name |-> [ea \in Addrs |-> SubName], cmt |-> [ea \in Addrs |-> NoText],
              rpt |-> [ea \in Addrs |-> NoText]]
    /\ comments = <<>>
    /\ names = <<>>
    /\ skel_conn = NewConnection
    /\ ap = NoApply
    /\ cl = NoCall

Methods == {"GET", "POST", "PUT", "DELETE", "PATCH"}

Call(op, method, before, stale, r) ==
    [op |-> op, method |-> method, online |-> before.is_online,
     sample |-> before.sample_id, stale |-> stale, exc |-> r.exc,
     sends |-> r.sends, offline_sends |-> r.offline_sends,
     reconnects |-> r.reconnects, retries |-> r.retries, failed |-> r.failed]

call_get_online ==
    /\ \E o \in ConnectOracles :
          LET r == get_online(skel_conn, o)
          IN /\ skel_conn' = r.conn
             /\ cl' = Call("get_online", "GET", skel_conn, FALSE, r)
    /\ UNCHANGED <<otherVars, ap>>

\* Any of poli_get, poli_post, ... : one call of poli_request.
call_poli_request ==
    /\ \E o \in OraclesFor(skel_conn), method \in Methods :
          LET r == poli_request(skel_conn, o)
              stale == /\ skel_conn.is_online
                       /\ h_request(skel_conn.h_conn, o.send).exc
                              = "CannotSendRequest"
          IN /\ skel_conn' = r.conn
             /\ cl' = Call("poli_request", method, skel_conn, stale, r)
    /\ UNCHANGED <<otherVars, ap>>

call_close_connection ==
    /\ skel_conn' = close_connection(skel_conn)
    /\ cl' = [op |-> "close_connection"]
    /\ UNCHANGED <<otherVars, ap>>

NextConn ==
    \/ call_get_online
    \/ call_poli_request
    \/ call_close_connection

SpecConn == InitConn /\ [][NextConn]_vars

\* ------------------------------------------------- the applier, run alone
\* A batch is handed to execute_comment / execute_rename twice in a row on one
\* thread, as the loops of sync_names do, with no other edit in between; the
\* analyst answers each confirmation as they like.
EText == <<"e'">>
ApplyTexts == {XText, YText, EText}
ApplyNames == {FooName, BarName, SubName}
ApplyWorkspaces == [name : [Addrs -> LocalNames],
                    cmt : [Addrs -> {NoText, XText}],
                    rpt : [Addrs -> {NoText, YText}]]

InitApply ==
    /\ Quiet
    /\ td = NoTeardown
    /\ peers = NoPeers
    /\ idb \in ApplyWorkspaces
    /\ comments \in SeqsUpTo({ Annotation(ea, d, t) :
                                 ea \in Addrs, d \in ApplyTexts, t \in 1..MaxTs },
                             MaxBatch)
    /\ names \in SeqsUpTo({ Annotation(ea, d, t) :
                              ea \in Addrs, d \in ApplyNames, t \in 1..MaxTs },
                          MaxBatch - Len(comments))
    /\ skel_conn = NewConnection
    /\ ap = [pass |-> 1, i |-> 1, once |-> idb, asked |-> 0, last |-> NoRename,
             lastc |-> NoComment]
    /\ cl = NoCall

\* SkelUtils.execute_comment, whole
execute_comment_whole(w, c) ==
    IF comment_differs(w, c) THEN make_rpt(w, c) ELSE w

\* The number of callbacks execute_comment hands to idaapi.execute_sync
execute_comment_writes(w, c) == IF comment_differs(w, c) THEN 1 ELSE 0

\* SkelUtils.execute_rename, whole, with the answers to its prompts
execute_rename_whole(w, n, answer) ==
    LET w1 == IF rename_forced(w, n) THEN sync_ask_rename(w, n, TRUE, answer)
              ELSE w
    IN IF rename_differs(w1, n) THEN sync_ask_rename(w1, n, FALSE, answer)
       ELSE w1

\* execute_rename shows a confirmation
rename_asks(w, n) ==
    LET w1 == IF rename_forced(w, n) THEN sync_ask_rename(w, n, TRUE, 1) ELSE w
    IN rename_differs(w1, n)

\* The number of idc.MakeName calls execute_rename comes to
execute_rename_writes(w, n, answer) ==
    (IF rename_forced(w, n) THEN 1 ELSE 0)
    + (IF rename_asks(w, n) /\ answer = 1 THEN 1 ELSE 0)

apply_comment ==
    /\ ap.pass \in {1, 2}
    /\ ap.i <= Len(comments)
    /\ idb' = execute_comment_whole(idb, comments[ap.i])
    /\ last_timestamp' = fold(comments[ap.i].timestamp, last_timestamp)
    /\ ap' = [ap EXCEPT !.i = ap.i + 1,
                        !.lastc = [seen |-> TRUE, c |-> comments[ap.i],
                                   before |-> idb, after |-> idb',
                                   writes |-> execute_comment_writes(
                                                  idb, comments[ap.i])]]
    /\ UNCHANGED <<update_event, kill_event, wpc, comments, names,
                   idx, sync_req, mpc, timer, edits, h_rename, handed_ts,
                   unhanded_ret, kill_at, syncs_after_kill, wakes_since_set,
                   syncs_since_wake, wexit, skel_conn, cl, hk, td, peers>>

apply_rename ==
    /\ ap.pass \in {1, 2}
    /\ ap.i > Len(comments)
    /\ ap.i <= Len(comments) + Len(names)
    /\ LET n == names[ap.i - Len(comments)]
       IN \E answer \in Answers :
             /\ idb' = execute_rename_whole(idb, n, answer)
             /\ last_timestamp' = fold(n.timestamp, last_timestamp)
             /\ ap' = [ap EXCEPT !.i = ap.i + 1,
                                 !.asked = IF rename_asks(idb, n) THEN Bump(ap.asked)
                                           ELSE ap.asked,
                                 !.last = [old |-> idb.name[n.address],
                                           data |-> n.data,
                                           asked |-> rename_asks(idb, n),
                                           new |-> idb'.name[n.address],
                                           answer |-> answer,
                                           renames |-> execute_rename_writes(
                                                           idb, n, answer),
                                           n |-> n, i |-> ap.i]]
    /\ UNCHANGED <<update_event, kill_event, wpc, comments, names,
                   idx, sync_req, mpc, timer, edits, h_rename, handed_ts,
                   unhanded_ret, kill_at, syncs_after_kill, wakes_since_set,
                   syncs_since_wake, wexit, skel_conn, cl, hk, td, peers>>

\* The batch is through: the state after the first pass is kept, the second
\* pass starts; after the second pass nothing more is done.
apply_pass_end ==
    /\ ap.pass \in {1, 2}
    /\ ap.i > Len(comments) + Len(names)
    /\ ap' = [ap EXCEPT !.pass = ap.pass + 1, !.i = 1,
                        !.once = IF ap.pass = 1 THEN idb ELSE ap.once]
    /\ UNCHANGED <<otherVars, skel_conn, cl>>

NextApply ==
    \/ apply_comment
    \/ apply_rename
    \/ apply_pass_end

SpecApply == InitApply /\ [][NextApply]_vars

\* ------------------------------------------------------ the hooks, run alone
\* The interceptors SkelUIHook.postprocess, SkelIDBHook.cmt_changed and
\* SkelIDPHook.renamed, the bulk SkelCore.send_comments and the filters
\* SkelUtils.filter_coms_blacklist / name_blacklist, each run as one call on the
\* mutation thread with the core's session; idc.Comment / idc.RptCmt of an
\* address without a comment is NoText.
UpperCase == <<"A", "B", "C", "D", "E", "F", "G", "H", "I", "J", "K", "L", "M">> \o
             <<"N", "O", "P", "Q", "R", "S", "T", "U", "V", "W", "X", "Y", "Z">>
LowerCase == <<"a", "b", "c", "d", "e", "f", "g", "h", "i", "j", "k", "l", "m">> \o
             <<"n", "o", "p", "q", "r", "s", "t", "u", "v", "w", "x", "y", "z">>
\* str.lower()
lower(s) ==
    [i \in 1..Len(s) |->
        IF \E k \in 1..Len(UpperCase) : UpperCase[k] = s[i]
        THEN LowerCase[CHOOSE k \in 1..Len(UpperCase) : UpperCase[k] = s[i]]
        ELSE s[i]]

\* filter_coms_blacklist.black_list ("Size" "this" is one element in the source)
black_list ==
    {
      <<"s", "i", "z", "e", "_", "t">>,
      <<"i", "n", "t">>,
      <<"L", "P", "S", "T", "R">>,
      <<"c", "h", "a", "r">>,
      <<"c", "h", "a", "r", " ", "*">>,
      <<"l", "p", "S", "t", "r", "i", "n", "g">>,
      <<"d", "w">>,
      <<"l", "p">>,
      <<"S", "t", "r">>,
      <<"D", "e", "s", "t">>,
      <<"S", "r", "c">>,
      <<"c", "c", "h">>,
      <<"D", "s", "t">>,
      <<"j", "u", "m", "p", "t", "a", "b", "l", "e">>,
      <<"s", "w", "i", "t", "c", "h", " ">>,
      <<"u", "n", "s", "i", "g", "n", "e", "d", " ", "i", "n", "t">>,
      <<"v", "o", "i", "d", " ", "*">>,
      <<"i", "n", "d", "i", "r", "e", "c", "t", " ", "t", "a", "b", "l", "e", " ", "f", "o", "r", " ", "s", "w", "i", "t", "c", "h", " ", "s", "t", "a", "t", "e", "m", "e", "n", "t">>,
      <<"S", "i", "z", "e", "t", "h", "i", "s">>,
      <<"j", "u", "m", "p", " ", "t", "a", "b", "l", "e", " ", "f", "o", "r">>,
      <<"s", "w", "i", "t", "c", "h", " ", "j", "u", "m", "p">>,
      <<"n", "S", "i", "z", "e">>,
      <<"h", "I", "n", "t", "e", "r", "n", "e", "t">>,
      <<"h", "O", "b", "j", "e", "c", "t">>,
      <<"S", "E", "H">>,
      <<"E", "x", "c", "e", "p", "t", "i", "o", "n", " ", "h", "a", "n", "d", "l", "e", "r">>,
      <<"S", "o", "u", "r", "c", "e">>,
      <<"S", "i", "z", "e">>,
      <<"V", "a", "l">>,
      <<"T", "i", "m", "e">>,
      <<"s", "t", "r", "u", "c", "t">>,
      <<"u", "n", "s", "i", "g", "n", "e", "d", " ", "_", "_", "i", "n", "t">>,
      <<"t", "h", "i", "s">>,
      <<"_", "_", "i", "n", "t", "3", "2">>,
      <<"v", "o", "i", "d", " ", "(">>,
      <<"M", "e", "m", "o", "r", "y">>,
      <<"H", "I", "N", "S", "T", "A", "N", "C", "E">>,
      <<"j", "u", "m", "p", "t", "a", "b", "l", "e">> }

\* SkelUtils.filter_coms_blacklist, for a comment that is not None:
\* cmt.lower().startswith(elem.lower()) for some elem of black_list
black_list_lower == { lower(elem) : elem \in black_list }
filter_coms_blacklist(cmt) ==
    \E elem \in black_list_lower : StartsWith(lower(cmt), elem)

\* The comment texts and names the analyst or the server may produce.
IntXText == <<"i", "n", "t", " ", "x">>
IntUpperText == <<"I", "N", "T">>
OkText == <<"o", "k">>
HookTexts == {IntXText, IntUpperText, OkText}
XSubName == <<"x", "s", "u", "b", "_", "1">>
XXSubName == <<"x", "x", "s", "u", "b", "_">>
SubShort == <<"s", "u", "b">>
DwordName == <<"d", "w", "o", "r", "d", "_", "1">>
HookNames == {SubName, LocName, DwordName, FooName, XSubName, XXSubName, SubShort}

\* idc.MinEA() and idc.MaxEA(): the program range; the addresses renamed() is
\* called with lie in it or just outside.
MinEA == 1
MaxEA == 2
HookEAs == (MinEA - 1)..(MaxEA + 1)

HookWorkspaces == [name : [Addrs -> {FooName}],
                   cmt : [Addrs -> HookTexts \cup {NoText}],
                   rpt : [Addrs -> HookTexts \cup {NoText}]]

\* How the network treats one push: the request goes out, its response comes
\* or does not.
HookOracles ==
    { o \in Oracles : /\ o.send = "ok" /\ o.resp \in {"ok", "err"}
                      /\ o.retry = "ok" /\ o.connect = "ok" /\ o.sid1 = "id"
                      /\ o.upload = "ok" /\ o.sid2 = "id" }

hookVars == <<update_event, kill_event, last_timestamp, wpc, comments, names,
              idx, sync_req, mpc, timer, edits, h_rename, handed_ts,
              unhanded_ret, kill_at, syncs_after_kill, wakes_since_set,
              syncs_since_wake, wexit, ap, cl, td, peers>>

Payload(address, data) == [address |-> address, data |-> data]

\* What one call of push_comment / push_name with payload p comes to, r the
\* result of its poli_post. calls: the payloads the calls were made with;
\* delivered: those whose request was answered.
push_result(r, p) ==
    [conn |-> r.conn, calls |-> <<p>>,
     delivered |-> IF r.exc = "none" THEN <<p>> ELSE <<>>, exc |-> r.exc]

\* One call of push_comment / push_name on session c, the network answering o.
push_one(c, p, o) == push_result(poli_request(c, o), p)

\* Two calls, one after the other.
push_both(r1, r2) ==
    [conn |-> r2.conn, calls |-> r1.calls \o r2.calls,
     delivered |-> r1.delivered \o r2.delivered, exc |-> r2.exc]

\* After the first call r1 of a handler: an exception ends the handler when
\* stop is true and is swallowed by it otherwise; the second call follows.
push_next(r1, ps, os, stop) ==
    IF Len(ps) = 1 \/ (r1.exc # "none" /\ stop)
    THEN r1
    ELSE push_both(r1, push_one(r1.conn, ps[2], os[2]))

\* The calls a handler makes one after the other (at most two), with the
\* payloads ps.
push_all(c, ps, os, stop) ==
    IF ps = <<>>
    THEN [conn |-> c, calls |-> <<>>, delivered |-> <<>>, exc |-> "none"]
    ELSE push_next(push_one(c, ps[1], os[1]), ps, os, stop)

\* A handler has run: the workspace it leaves, its session, the event.
Handled(op, text, w, r) ==
    /\ idb' = w
    /\ skel_conn' = r.conn
    /\ hk' = [op |-> op, text |-> text, calls |-> r.calls,
              delivered |-> r.delivered, exc |-> r.exc, wrote |-> FALSE]

\* The workspace after the analyst's command put text at addr.
commented(w, addr, rpt, text) ==
    IF rpt THEN [w EXCEPT !.rpt[addr] = text] ELSE [w EXCEPT !.cmt[addr] = text]

\* The payloads SkelUIHook.postprocess pushes after a comment command at addr,
\* w the workspace after the command and fcmt the function comment at addr.
postprocess_pushes(cmdname, w, addr, fcmt) ==
    IF cmdname = "MakeComment"
    THEN (IF w.cmt[addr] # NoText THEN <<Payload(addr, w.cmt[addr])>> ELSE <<>>)
         \o (IF fcmt # NoText THEN <<Payload(addr, fcmt)>> ELSE <<>>)
    ELSE (IF w.rpt[addr] # NoText THEN <<Payload(addr, w.rpt[addr])>> ELSE <<>>)
         \o (IF fcmt # NoText THEN <<Payload(addr, fcmt)>> ELSE <<>>)

\* SkelUIHook.postprocess after the analyst's command MakeComment / MakeRptCmt
\* has put text at addr.
postprocess ==
    /\ \E cmdname \in {"MakeComment", "MakeRptCmt"}, addr \in Addrs,
          text \in HookTexts, fcmt \in {NoText, OkText},
          o1 \in HookOracles, o2 \in HookOracles :
          Handled("postprocess", text,
                  commented(idb, addr, cmdname = "MakeRptCmt", text),
                  push_all(skel_conn,
                           postprocess_pushes(
                               cmdname,
                               commented(idb, addr, cmdname = "MakeRptCmt", text),
                               addr, fcmt),
                           <<o1, o2>>, TRUE))
    /\ UNCHANGED hookVars

\* The payloads SkelIDBHook.cmt_changed pushes.
cmt_changed_pushes(w, addr, rpt) ==
    LET cmt == IF rpt THEN w.rpt[addr] ELSE w.cmt[addr]
    IN IF cmt # NoText /\ ~filter_coms_blacklist(cmt)
       THEN <<Payload(addr, cmt)>>
       ELSE <<>>

\* SkelIDBHook.cmt_changed(addr, rpt) after the comment at addr became text.
cmt_changed ==
    /\ \E addr \in Addrs, rpt \in BOOLEAN, text \in HookTexts, o1 \in HookOracles :
          Handled("cmt_changed", text, commented(idb, addr, rpt, text),
                  push_all(skel_conn,
                           cmt_changed_pushes(commented(idb, addr, rpt, text),
                                              addr, rpt),
                           <<o1>>, TRUE))
    /\ UNCHANGED hookVars

\* SkelCore.send_comments, for one head: what is sent for it.
send_com(w, head) ==
    LET com == w.cmt[head]
        rpt_com == w.rpt[head]
    IN (IF com # NoText /\ ~filter_coms_blacklist(com) THEN com ELSE <<>>)
       \o (IF rpt_com # NoText /\ ~filter_coms_blacklist(rpt_com)
           THEN <<" ">> \o rpt_com ELSE <<>>)

send_comments_pushes(w, head) ==
    IF Len(send_com(w, head)) > 0
    THEN <<Payload(head, send_com(w, head))>>
    ELSE <<>>

\* SkelCore.send_comments: the initial bulk sync over Heads().
send_comments ==
    /\ \E head \in Addrs, o1 \in HookOracles :
          Handled("send_comments", idb.cmt[head], idb,
                  push_all(skel_conn, send_comments_pushes(idb, head),
                           <<o1>>, FALSE))
    /\ UNCHANGED hookVars

\* A comment fetched from the server is handed to SkelUtils.execute_comment.
sync_comment ==
    /\ \E ea \in Addrs, text \in HookTexts :
          LET w == execute_comment_whole(idb, Annotation(ea, text, 1))
          IN /\ idb' = w
             /\ skel_conn' = skel_conn
             /\ hk' = [op |-> "sync_comment", text |-> text, calls |-> <<>>,
                       delivered |-> <<>>, exc |-> "none", wrote |-> w # idb]
    /\ UNCHANGED hookVars

\* The payloads renamed would push if it did not test the address range.
renamed_pushes_any_address(ea, new_name, is_local_name) ==
    IF ~is_local_name /\ ~name_blacklist(new_name)
    THEN <<Payload(ea, new_name)>>
    ELSE <<>>

\* The payloads SkelIDPHook.renamed pushes.
renamed_pushes(ea, new_name, is_local_name) ==
    IF ea >= MinEA /\ ea <= MaxEA /\ ~is_local_name /\ ~name_blacklist(new_name)
    THEN <<Payload(ea, new_name)>>
    ELSE <<>>

Renamed(ea, new_name, is_local_name, r) ==
    /\ skel_conn' = r.conn
    /\ hk' = [op |-> "renamed", ea |-> ea, new_name |-> new_name,
              is_local_name |-> is_local_name, calls |-> r.calls,
              delivered |-> r.delivered, exc |-> r.exc]
    /\ idb' = idb

\* SkelIDPHook.renamed(ea, new_name, is_local_name)
renamed ==
    /\ \E ea \in HookEAs, new_name \in HookNames, is_local_name \in BOOLEAN,
          o1 \in HookOracles :
          Renamed(ea, new_name, is_local_name,
                  push_all(skel_conn, renamed_pushes(ea, new_name, is_local_name),
                           <<o1>>, TRUE))
    /\ UNCHANGED hookVars

\* SkelUtils.name_blacklist called on a name.
call_name_blacklist ==
    /\ \E name \in HookNames :
          /\ hk' = [op |-> "name_blacklist", name |-> name,
                    result |-> name_blacklist(name)]
          /\ UNCHANGED <<idb, skel_conn>>
    /\ UNCHANGED hookVars

\* The applier has written the workspace and the host has notified the hooks.
Applied(op, data, w, r) ==
    /\ idb' = w
    /\ skel_conn' = r.conn
    /\ hk' = [op |-> op, text |-> data, calls |-> r.calls,
              delivered |-> r.delivered, exc |-> r.exc, wrote |-> w # idb]

\* The payloads pushed when execute_comment has been handed annotation c: the
\* host reports the repeatable comment make_rpt wrote to
\* SkelIDBHook.cmt_changed(addr, 1), installed since SkelCore.run.
applied_comment_pushes(w, c) ==
    IF execute_comment_whole(w, c) # w
    THEN cmt_changed_pushes(execute_comment_whole(w, c), c.address, TRUE)
    ELSE <<>>

\* A comment fetched from the server is handed to SkelUtils.execute_comment
\* while the hooks are installed.
applied_comment ==
    /\ \E ea \in Addrs, text \in HookTexts, o1 \in HookOracles :
          Applied("applied_comment", text,
                  execute_comment_whole(idb, Annotation(ea, text, 1)),
                  push_all(skel_conn,
                           applied_comment_pushes(idb, Annotation(ea, text, 1)),
                           <<o1>>, TRUE))
    /\ UNCHANGED hookVars

\* The payloads pushed when execute_rename has been handed annotation n of
\* program address ea: the host reports the name idc.MakeName set to
\* SkelIDPHook.renamed(ea, new_name, 0).
applied_name_pushes(w, n, ea, answer) ==
    IF execute_rename_whole(w, n, answer) # w
    THEN renamed_pushes(ea, execute_rename_whole(w, n, answer).name[n.address],
                        FALSE)
    ELSE <<>>

\* A name fetched from the server is handed to SkelUtils.execute_rename while
\* the hooks are installed.
applied_name ==
    /\ \E addr \in Addrs, ea \in MinEA..MaxEA, data \in {BarName, SubName},
          answer \in Answers, o1 \in HookOracles :
          Applied("applied_name", data,
                  execute_rename_whole(idb, Annotation(addr, data, 1), answer),
                  push_all(skel_conn,
                           applied_name_pushes(idb, Annotation(addr, data, 1),
                                               ea, answer),
                           <<o1>>, TRUE))
    /\ UNCHANGED hookVars

InitHooks ==
    /\ Quiet
    /\ td = NoTeardown
    /\ peers = NoPeers
    /\ idb \in HookWorkspaces
    /\ comments = <<>>
    /\ names = <<>>
    /\ \E o \in ConnectOracles : skel_conn = get_online(NewConnection, o).conn
    /\ ap = NoApply
    /\ cl = NoCall

NextHooks ==
    \/ postprocess
    \/ cmt_changed
    \/ send_comments
    \/ sync_comment
    \/ renamed
    \/ call_name_blacklist

SpecHooks == InitHooks /\ [][NextHooks]_vars

\* The applier at work with the hooks installed.
NextEcho ==
    \/ applied_comment
    \/ applied_name

SpecEcho == InitHooks /\ [][NextEcho]_vars

\* ------------------------------------- a request racing with the teardown
\* The worker is in sync_names and makes its two requests (get_comments, then
\* get_names), poli_request statement by statement; end_skelenox, past kill(),
\* closes the agent's session at any point in between. idx is the request the
\* worker is at.
tdVars == <<idb, update_event, kill_event, last_timestamp, comments, names,
            sync_req, timer, edits, h_rename, handed_ts, unhanded_ret, kill_at,
            syncs_after_kill, wakes_since_set, syncs_since_wake, ap, cl, hk,
            peers>>

InitTeardown ==
    /\ idb \in Workspaces
    /\ update_event = TRUE
    /\ kill_event = TRUE
    /\ last_timestamp = Epoch
    /\ \E o \in ConnectOracles : skel_conn = get_online(NewConnection, o).conn
    /\ wpc = "pr_check"
    /\ comments = <<>>
    /\ names = <<>>
    /\ idx = 1
    /\ sync_req = "none"
    /\ mpc = "end_close"
    /\ timer = TRUE
    /\ edits = 0
    /\ h_rename = [old |-> NoText]
    /\ handed_ts = {}
    /\ unhanded_ret = 0
    /\ kill_at = "sync"
    /\ syncs_after_kill = 0
    /\ wakes_since_set = 0
    /\ syncs_since_wake = 1
    /\ wexit = "running"
    /\ ap = NoApply
    /\ cl = NoCall
    /\ hk = NoHook
    /\ td = NoTeardown
    /\ peers = NoPeers

\* What the session did after the teardown: requests put on the wire
\* (sent_after), is_online set again (online_after).
AfterTeardown(sent, online) ==
    [td EXCEPT !.sent_after = @ \/ (td.torn /\ sent > 0),
               !.online_after = @ \/ (td.torn /\ online)]

\* poli_request: if not self.is_online: raise IOError
request_check ==
    /\ wpc = "pr_check"
    /\ IF skel_conn.is_online
       THEN wpc' = "pr_request" /\ wexit' = wexit
       ELSE raise_in_run
    /\ UNCHANGED <<tdVars, skel_conn, idx, mpc, td, peers>>

\* One self.h_conn.request(...) of poli_request: where the worker goes next
\* (handler: where a CannotSendRequest leads), the connection, what was sent.
request_made(q, handler) ==
    /\ skel_conn' = [skel_conn EXCEPT !.h_conn = q.h]
    /\ td' = AfterTeardown(q.sent, FALSE)
    /\ IF q.exc = "none"
       THEN wpc' = "pr_response" /\ wexit' = wexit
       ELSE IF q.exc = "CannotSendRequest" /\ handler # "none"
       THEN wpc' = handler /\ wexit' = wexit
       ELSE raise_in_run

\* poli_request: self.h_conn.request(method, endpoint, json_data, headers)
request_send ==
    /\ wpc = "pr_request"
    /\ \E outcome \in SendOutcomes :
          request_made(h_request(skel_conn.h_conn, outcome), "pr_close")
    /\ UNCHANGED <<tdVars, idx, mpc>>

\* poli_request, except httplib.CannotSendRequest: self.close_connection()
request_handler_close ==
    /\ wpc = "pr_close"
    /\ skel_conn' = close_connection(skel_conn)
    /\ wpc' = "pr_get_online"
    /\ UNCHANGED <<tdVars, idx, mpc, td, wexit>>

request_reconnected(r) ==
    /\ skel_conn' = r.conn
    /\ td' = AfterTeardown(r.sends, r.conn.is_online)

\* poli_request, except httplib.CannotSendRequest: self.get_online()
request_handler_get_online ==
    /\ wpc = "pr_get_online"
    /\ \E o \in ConnectOracles : request_reconnected(get_online(skel_conn, o))
    /\ wpc' = "pr_retry"
    /\ UNCHANGED <<tdVars, idx, mpc, wexit>>

\* poli_request, except httplib.CannotSendRequest: the request sent again
request_retry ==
    /\ wpc = "pr_retry"
    /\ \E outcome \in SendOutcomes :
          request_made(h_request(skel_conn.h_conn, outcome), "none")
    /\ UNCHANGED <<tdVars, idx, mpc>>

\* The response was read: get_comments is followed by get_names, and get_names
\* by the rest of sync_names.
request_answered(p) ==
    /\ skel_conn' = [skel_conn EXCEPT !.h_conn = p.h]
    /\ IF p.exc # "none"
       THEN raise_in_run /\ idx' = idx
       ELSE IF idx = 1
       THEN wpc' = "pr_check" /\ idx' = 2 /\ wexit' = wexit
       ELSE wpc' = "wait" /\ idx' = 0 /\ wexit' = wexit

\* poli_request: res = self.h_conn.getresponse() ... json.loads(data); a
\* connection that was closed since the request raises ResponseNotReady.
request_response ==
    /\ wpc = "pr_response"
    /\ IF skel_conn.h_conn = "busy"
       THEN \E outcome \in RespOutcomes :
               request_answered(h_response(skel_conn.h_conn, outcome))
       ELSE raise_in_run /\ UNCHANGED <<skel_conn, idx>>
    /\ UNCHANGED <<tdVars, mpc, td, peers>>

\* end_skelenox: self.skel_sync_agent.skel_conn.close_connection()
teardown ==
    /\ mpc = "end_close"
    /\ skel_conn' = close_connection(skel_conn)
    /\ td' = [td EXCEPT !.torn = TRUE]
    /\ mpc' = "end_join"
    /\ UNCHANGED <<tdVars, wpc, idx, wexit>>

\* end_skelenox: self.skel_sync_agent.join()
teardown_join ==
    /\ mpc = "end_join"
    /\ wpc = "stopped"
    /\ mpc' = "end_done"
    /\ UNCHANGED <<tdVars, skel_conn, wpc, idx, wexit, td, peers>>

NextTeardown ==
    \/ request_check
    \/ request_send
    \/ request_handler_close
    \/ request_handler_get_online
    \/ request_retry
    \/ request_response
    \/ teardown
    \/ teardown_join

SpecTeardown == InitTeardown /\ [][NextTeardown]_vars

\* --------------------------------------------- the push calls, one at a time
\* A push call whose poli_post came to r and which returns ret when the
\* request was answered; an exception of the request leaves the call.
Pushed(r, ret) ==
    [conn |-> r.conn, exc |-> r.exc, returned |-> r.exc = "none",
     ret |-> r.exc = "none" /\ ret]

\* A push call that returns False before any request.
NotPushed(c) == [conn |-> c, exc |-> "none", returned |-> TRUE, ret |-> FALSE]

\* SkelConnection.push_comment; given: comment is not None; accepted: the
\* "result" of the server's answer.
push_comment(c, given, o, accepted) ==
    IF ~given THEN NotPushed(c) ELSE Pushed(poli_request(c, o), accepted)

\* SkelConnection.push_name; given: name is not None.
push_name(c, given, o, accepted) ==
    IF ~given THEN NotPushed(c) ELSE Pushed(poli_request(c, o), TRUE)

\* SkelConnection.push_type
push_type(c, o, accepted) == Pushed(poli_request(c, o), accepted)

\* A push call has been made.
Pushing(op, given, accepted, p) ==
    /\ skel_conn' = p.conn
    /\ hk' = [op |-> op, given |-> given, accepted |-> accepted,
              returned |-> p.returned, ret |-> p.ret, exc |-> p.exc]
    /\ idb' = idb

call_push_comment ==
    /\ \E given \in BOOLEAN, accepted \in BOOLEAN, o \in HookOracles :
          Pushing("push_comment", given, accepted,
                  push_comment(skel_conn, given, o, accepted))
    /\ UNCHANGED hookVars

call_push_name ==
    /\ \E given \in BOOLEAN, accepted \in BOOLEAN, o \in HookOracles :
          Pushing("push_name", given, accepted,
                  push_name(skel_conn, given, o, accepted))
    /\ UNCHANGED hookVars

\* SkelUtils.func_name_blacklist
func_default_values ==
    { <<"s", "u", "b", "_">>, <<"n", "u", "l", "l", "s", "u", "b">>,
      <<"u", "n", "k", "n", "o", "w", "n">>, <<"S", "E", "H", "_">>,
      <<"_", "_", "i", "m", "p">>, <<"j", "_">>, <<"_", "_", "I", "M", "P">> }

func_name_blacklist(name) ==
    \/ \E val \in func_default_values : InHead(val, name, Len(val) + 1)
    \/ name[1] \in {"@", "?"}

\* The named heads of idautils.Names() with the type GetType gives for each
\* (NoText: None).
IntType == <<"i", "n", "t">>
CharArrayType == <<"c", "h", "a", "r", "[", "4", "]">>
NameHeads == { [ea |-> MinEA, name |-> FooName, type |-> IntType],
               [ea |-> MaxEA, name |-> BarName, type |-> IntType],
               [ea |-> MaxEA, name |-> SubName, type |-> IntType],
               [ea |-> MaxEA, name |-> BarName, type |-> CharArrayType],
               [ea |-> MaxEA, name |-> BarName, type |-> NoText] }

\* SkelCore.send_names: the payload pushed for one head, if any.
send_names_push(head) ==
    IF /\ ~func_name_blacklist(head.name)
       /\ head.type # NoText
       /\ ~StartsWith(lower(head.type), <<"c", "h", "a", "r", "[">>)
    THEN <<Payload(head.ea, head.name)>>
    ELSE <<>>

\* SkelCore.send_names over the heads: push_name is called outside any
\* try block, its exception leaves the loop, send_names and run.
send_names_pushes(heads) == send_names_push(heads[1]) \o send_names_push(heads[2])

\* SkelCore.run: send_comments comes after send_names has returned. rn: what
\* send_names came to (or no call, when the analyst answered no).
run_send_comments(rn, asked, w, head, o) ==
    IF rn.exc # "none" \/ ~asked
    THEN rn
    ELSE push_both(rn, push_all(rn.conn, send_comments_pushes(w, head),
                                <<o>>, FALSE))

Synced(intended, r, raised) ==
    /\ skel_conn' = r.conn
    /\ hk' = [op |-> "initial_sync", intended |-> intended, calls |-> r.calls,
              delivered |-> r.delivered, raised |-> raised]
    /\ idb' = idb

NoPush(c) == [conn |-> c, calls |-> <<>>, delivered |-> <<>>, exc |-> "none"]

\* What run's initial sync came to: rn from send_names, r at the end.
run_synced(intended, rn, r) == Synced(intended, r, rn.exc # "none")

run_after_names(intended, rn, ask_comments, w, head, o) ==
    run_synced(intended, rn, run_send_comments(rn, ask_comments, w, head, o))

\* SkelCore.run with initial_sync set: the two confirmations, send_names and
\* send_comments, before the hooks are installed.
initial_sync ==
    /\ hk = NoHook
    /\ \E heads \in [1..2 -> NameHeads], ask_names \in BOOLEAN,
          ask_comments \in BOOLEAN, head \in Addrs,
          o1 \in HookOracles, o2 \in HookOracles, o3 \in HookOracles :
          run_after_names(
              (IF ask_names THEN send_names_pushes(heads) ELSE <<>>)
                  \o (IF ask_comments THEN send_comments_pushes(idb, head)
                      ELSE <<>>),
              IF ask_names
              THEN push_all(skel_conn, send_names_pushes(heads), <<o1, o2>>, TRUE)
              ELSE NoPush(skel_conn),
              ask_comments, idb, head, o3)
    /\ UNCHANGED hookVars

\* "p in s" on strings
Contains(s, p) ==
    \E i \in 1..(Len(s) - Len(p) + 1) : SubSeq(s, i, i + Len(p) - 1) = p

\* str.replace(old, new): every occurrence of old, left to right
RECURSIVE str_replace(_, _, _)
str_replace(s, old, new) ==
    IF Len(s) < Len(old)
    THEN s
    ELSE IF SubSeq(s, 1, Len(old)) = old
         THEN new \o str_replace(SubSeq(s, Len(old) + 1, Len(s)), old, new)
         ELSE <<s[1]>> \o str_replace(Tail(s), old, new)

\* SkelUtils.prepare_parse_type: the two lists of calling conventions
fpconventions ==
    << <<"_", "_", "c", "d", "e", "c", "l", " ", "*">>,
       <<"_", "_", "s", "t", "d", "c", "a", "l", "l", " ", "*">>,
       <<"_", "_", "f", "a", "s", "t", "c", "a", "l", "l", " ", "*">>,
       <<"_", "_", "t", "h", "i", "s", "c", "a", "l", "l", " ", "*">> >>

cconventions ==
    << <<"_", "_", "c", "d", "e", "c", "l">>,
       <<"_", "_", "s", "t", "d", "c", "a", "l", "l">>,
       <<"_", "_", "f", "a", "s", "t", "c", "a", "l", "l">>,
       <<"_", "_", "t", "h", "i", "s", "c", "a", "l", "l">> >>

DefaultName == <<"D", "e", "f", "a", "u", "l", "t">>

\* The type strings idc.GetType gives (NoText: None): a data type, a
\* prototype and a function pointer.
ProtoType == <<"i", "n", "t", " ", "_", "_", "c", "d", "e", "c", "l", "(", "i", "n", "t", ")">>
FuncPtrType == <<"i", "n", "t", " ", "(", "_", "_", "c", "d", "e", "c", "l", " ", "*", ")", "(", "i", "n", "t", ")">>
SetTypes == {IntType, ProtoType, FuncPtrType}

\* The conventions of the list that occur in typestr, in the order of the
\* list; the loop keeps the replacement made for the last of them.
Occurring(convs, typestr) ==
    SelectSeq(convs, LAMBDA conv : Contains(typestr, conv))

\* SkelUtils.prepare_parse_type(typestr, addr), lname being
\* idc.GetTrueName(addr) (NoText: None); the result NoText is None.
prepare_parse_type(typestr, truename) ==
    LET lname == IF truename = NoText THEN DefaultName ELSE truename
        fp == Occurring(fpconventions, typestr)
        cc == Occurring(cconventions, typestr)
    IN IF fp # <<>>
       THEN str_replace(typestr, fp[Len(fp)], fp[Len(fp)] \o lname)
       ELSE IF cc # <<>>
            THEN str_replace(typestr, cc[Len(cc)],
                             cc[Len(cc)] \o <<" ">> \o lname)
            ELSE NoText

\* SkelUIHook.postprocess, command SetType: the payloads handed to push_type.
set_type_pushes(addr, newtype, truename) ==
    IF newtype = NoText
    THEN <<>>
    ELSE <<Payload(addr, prepare_parse_type(newtype, truename))>>

TypeSet(newtype, truename, r) ==
    /\ skel_conn' = r.conn
    /\ hk' = [op |-> "SetType", newtype |-> newtype, truename |-> truename,
              calls |-> r.calls, delivered |-> r.delivered, exc |-> r.exc]
    /\ idb' = idb

\* SkelUIHook.postprocess after the analyst's command SetType at addr.
postprocess_SetType ==
    /\ \E addr \in Addrs, newtype \in SetTypes \cup {NoText},
          truename \in {FooName, NoText}, o1 \in HookOracles :
          TypeSet(newtype, truename,
                  push_all(skel_conn, set_type_pushes(addr, newtype, truename),
                           <<o1>>, TRUE))
    /\ UNCHANGED hookVars

NextPush ==
    \/ call_push_comment
    \/ call_push_name
    \/ initial_sync
    \/ postprocess_SetType

SpecPush == InitHooks /\ [][NextPush]_vars

\* ------------------------------------------- two agents on the same server
\* Each agent has its workspace, its hooks and its sync worker; the server
\* keeps the comments pushed, in the order of their timestamps, and answers
\* get_comments(timestamp) with those stamped at or after the timestamp.
\* peers.server holds the part of that list some agent can still fetch;
\* peers.last[a] is the position in it of agent a's watermark (0: the epoch);
\* peers.queue[a] the comments agent a has fetched and not yet handed to
\* execute_comment.
Agents == {"A", "B"}
PeerTexts == {XText, YText}
MaxLog == 6

peerVars == <<idb, update_event, kill_event, last_timestamp, skel_conn, wpc,
              comments, names, idx, sync_req, mpc, timer, edits, h_rename,
              handed_ts, unhanded_ret, kill_at, syncs_after_kill,
              wakes_since_set, syncs_since_wake, wexit, ap, cl, hk, td>>

Lesser(m, n) == IF m < n THEN m ELSE n

\* The comments no agent will be served again are dropped from peers.server.
Trim(p) ==
    IF Lesser(p.last["A"], p.last["B"]) <= 1
    THEN p
    ELSE [p EXCEPT !.server = SubSeq(@, Lesser(p.last["A"], p.last["B"]), Len(@)),
                   !.last = [a \in Agents |->
                                @[a] - (Lesser(p.last["A"], p.last["B"]) - 1)]]

\* get_comments(timestamp=self.last_timestamp) of agent a
peer_fetch(p, a) ==
    SubSeq(p.server, IF p.last[a] = 0 THEN 1 ELSE p.last[a], Len(p.server))

\* sync_names of agent a, the session online: the comments are fetched; the
\* loop will have the watermark at the stamp of the last of them.
peer_sync(a) ==
    /\ peers.on
    /\ peers.queue[a] = <<>>
    /\ peers' = Trim([peers EXCEPT
                        !.queue[a] = peer_fetch(peers, a),
                        !.last[a] = IF peer_fetch(peers, a) = <<>> THEN @
                                    ELSE Len(peers.server)])
    /\ UNCHANGED peerVars

\* The loop of sync_names of agent a hands its next comment to
\* execute_comment; what that writes the host reports to cmt_changed, which
\* pushes it.
peer_execute_comment(a) ==
    /\ peers.on
    /\ peers.queue[a] # <<>>
    /\ Len(peers.server)
       + Len(applied_comment_pushes(peers.idb[a], peers.queue[a][1])) <= MaxLog
    /\ peers' = [peers EXCEPT
                   !.idb[a] = execute_comment_whole(peers.idb[a],
                                                    peers.queue[a][1]),
                   !.server = @ \o applied_comment_pushes(peers.idb[a],
                                                          peers.queue[a][1]),
                   !.queue[a] = Tail(@)]
    /\ UNCHANGED peerVars

\* The analyst of agent a puts a plain or repeatable comment at addr; the host
\* reports it to SkelIDBHook.cmt_changed, which pushes it.
peer_comment(a) ==
    /\ peers.on
    /\ peers.edits[a] < MaxEdits
    /\ \E addr \in Addrs, rpt \in BOOLEAN, text \in PeerTexts :
          /\ Len(peers.server)
             + Len(cmt_changed_pushes(commented(peers.idb[a], addr, rpt, text),
                                      addr, rpt)) <= MaxLog
          /\ peers' = [peers EXCEPT
                 !.idb[a] = commented(peers.idb[a], addr, rpt, text),
                 !.server = @ \o cmt_changed_pushes(
                                     commented(peers.idb[a], addr, rpt, text),
                                     addr, rpt),
                 !.edits[a] = @ + 1]
    /\ UNCHANGED peerVars

InitPeers ==
    /\ Quiet
    /\ td = NoTeardown
    /\ idb = [name |-> [ea \in Addrs |-> FooName],
              cmt |-> [ea \in Addrs |-> NoText],
              rpt |-> [ea \in Addrs |-> NoText]]
    /\ comments = <<>>
    /\ names = <<>>
    /\ skel_conn = NewConnection
    /\ ap = NoApply
    /\ cl = NoCall
    /\ peers = [on |-> TRUE,
                idb |-> [a \in Agents |-> idb],
                server |-> <<>>,
                last |-> [a \in Agents |-> 0],
                queue |-> [a \in Agents |-> <<>>],
                edits |-> [a \in Agents |-> 0]]

sync_A == peer_sync("A") \/ peer_execute_comment("A")
sync_B == peer_sync("B") \/ peer_execute_comment("B")
comment_A == peer_comment("A")
comment_B == peer_comment("B")

NextPeers ==
    \/ sync_A
    \/ sync_B
    \/ comment_A
    \/ comment_B

SpecPeers == InitPeers /\ [][NextPeers]_vars

\* Each agent's timer keeps setting update_event, so each worker keeps
\* running sync_names.
FairSpecPeers == SpecPeers /\ WF_vars(sync_A) /\ WF_vars(sync_B)

\* -------------------------------------------------------------------- claims
default_name(n) == name_blacklist(n)
MaxOf(S) == CHOOSE m \in S : \A x \in S : x <= m
Stamp(a) == strptime(a.timestamp)
Rest(q, i) == { q[k] : k \in i..Len(q) }

\* The fetched annotations of the running sync_names call that have not yet
\* been passed to execute_comment / execute_rename.
Unhanded ==
    CASE wpc = "get_names" -> Rest(comments, 1)
      [] wpc = "comment" -> Rest(comments, idx) \cup Rest(names, 1)
      [] wpc = "comment_wait" -> Rest(comments, idx + 1) \cup Rest(names, 1)
      [] wpc = "name" -> Rest(names, idx)
      [] wpc \in {"force_wait", "name_check", "ask_wait"} -> Rest(names, idx + 1)
      [] OTHER -> {}

\* An annotation is inside the applier: passed to it, its timestamp not yet folded.
InApplier == wpc \in {"comment_wait", "force_wait", "name_check", "ask_wait"}

\* C1: a local name that is not a generator default and differs from the
\* incoming name is overwritten by execute_rename only after the analyst said
\* yes to a confirmation of that overwrite.
C1_OverwriteConfirmed ==
    h_rename.old # NoText =>
        \/ default_name(h_rename.old)
        \/ h_rename.old = h_rename.new
        \/ h_rename.confirmed

\* C2: the watermark never decreases, and whenever no annotation is inside the
\* applier it is the largest timestamp of the annotations processed so far
\* (the epoch before any).
C2_WatermarkMaxFold ==
    [][/\ last_timestamp' >= last_timestamp
       /\ ~InApplier' => last_timestamp' = MaxOf(handed_ts' \cup {Epoch})]_vars

C2_Witness ==
    /\ wpc = "wait"
    /\ handed_ts = 1..MaxTs
    /\ last_timestamp = MaxTs

\* C3 (as claimed): at no state of a sync_names call is the watermark above the
\* timestamp of a fetched annotation that has not yet been handed over.
C3_NoAdvancePastUnhanded ==
    \A a \in Unhanded : last_timestamp <= Stamp(a)

\* C3 (amended): the watermark is only ever raised to the timestamp of an
\* annotation that has already been handed to the applier, and sync_names
\* returns only when every fetched annotation has been handed over.
C3_AdvanceOnlyToHanded ==
    /\ last_timestamp \in handed_ts \cup {Epoch}
    /\ unhanded_ret = 0

C3_Witness ==
    /\ \E a \in Unhanded : last_timestamp > Stamp(a)
    /\ last_timestamp \in handed_ts

\* C5: kill() called while the worker is blocked in update_event.wait(): the
\* worker starts no sync_names any more, and it wakes and returns from run.
C5_KillWhileBlocked ==
    /\ [](kill_at = "blocked" =>
            /\ wpc \in {"wait", "clear", "kill_wait", "stopped"}
            /\ syncs_after_kill = 0)
    /\ (kill_at = "blocked") ~> (wpc = "stopped" /\ wexit = "return")

C5_Witness ==
    /\ kill_at = "blocked"
    /\ wpc = "stopped"
    /\ wexit = "return"

\* C6 (as claimed): once kill() has set the stop flag the worker never starts a
\* sync_names.
C6_NoSyncAfterKill == syncs_after_kill = 0

\* C6 (amended): after kill() has set the stop flag the worker starts at most
\* one sync_names, and only when the flag was set between the return of the
\* stop-wait and the call.
C6_OnlyTheCallInTheGap ==
    syncs_after_kill <= (IF kill_at = "sync" THEN 1 ELSE 0)

C6_Witness ==
    /\ kill_at = "sync"
    /\ syncs_after_kill = 1

\* C7: end_skelenox closes the sync agent's connection only after the worker
\* thread has terminated.
C7_TeardownAfterJoin ==
    mpc \in {"end_join", "end_done"} => wpc = "stopped"

\* C8: once end_skelenox has called kill() and is in join(), the worker reaches
\* its terminal state and join() returns.
C8_JoinReturns ==
    (mpc = "end_join") ~> (mpc = "end_done" /\ wpc = "stopped")

\* C9: the timer sets the signal only when it is clear, the worker wakes at
\* most once per set of the signal, and it runs at most one sync_names per wake.
C9_Coalescing ==
    /\ mpc = "update_set" => ~update_event
    /\ wakes_since_set <= 1
    /\ syncs_since_wake <= 1

C9_Witness ==
    /\ update_event
    /\ timer
    /\ mpc = "idle"
    /\ wpc = "wait"
    /\ wakes_since_set = 0
    /\ syncs_since_wake = 1

\* C4: handing a batch to the applier twice in a row leaves the workspace as
\* handing it once does, whatever the analyst answers to the confirmations.
C4_ApplyTwiceIsApplyOnce ==
    ap.pass = 3 => idb = ap.once

\* C10: a request that fails with a stale-connection error gets exactly one
\* reconnect and exactly one retry; a retry that fails too propagates, with no
\* further reconnect or retry. A request that does not fail so gets neither.
C10_OneReconnectOneRetry ==
    cl.op = "poli_request" =>
        /\ cl.stale => /\ cl.reconnects = 1
                       /\ cl.retries = 1
                       /\ cl.failed = 2 => cl.exc # "none"
        /\ ~cl.stale => cl.reconnects = 0 /\ cl.retries = 0

C10_Witness ==
    /\ cl.op = "poli_request"
    /\ cl.stale
    /\ cl.failed = 2
    /\ cl.exc = "CannotSendRequest"
    /\ cl.reconnects = 1
\* A name that begins with one of the generator-default prefixes.
IsDefaultLocalName(n) == \E value \in default_values : StartsWith(n, value)

\* C11: when the current local name begins with a generator-default prefix
\* (sub_, dword_, unk_, byte_, word_, loc_), execute_rename overwrites it with
\* the incoming name and shows no confirmation.
C11_DefaultNameForced ==
    ap.pass # 0 /\ IsDefaultLocalName(ap.last.old) =>
        /\ ~ap.last.asked
        /\ ap.last.new = encode_ignore(ap.last.data)

\* The later of two annotations.
Later(a, b) == IF Stamp(a) > Stamp(b) THEN a ELSE b

\* C13: a batch of two comments for one address with different timestamps, in
\* either order: after the batch was applied the text kept at the address is
\* the text of the later comment, and the watermark is the later timestamp.
C13_LatestTextPersisted ==
    /\ ap.pass = 2 /\ ap.i = 1
    /\ Len(comments) = 2 /\ Len(names) = 0
    /\ comments[1].address = comments[2].address
    /\ Stamp(comments[1]) # Stamp(comments[2])
    => LET c == Later(comments[1], comments[2])
       IN /\ \/ idb.rpt[c.address] = encode_replace(c.data)
             \/ idb.cmt[c.address] = c.data
          /\ last_timestamp = Stamp(c)

\* C12: a comment that starts, whatever its case, with a blacklisted stem is
\* pushed to the server by no hook and by no bulk sync, and makes no local
\* write when it comes from the server.
C12_BoilerplateNeverForwarded ==
    hk.op \in {"postprocess", "cmt_changed", "send_comments", "sync_comment"} =>
        /\ \A i \in 1..Len(hk.delivered) :
              ~filter_coms_blacklist(hk.delivered[i].data)
        /\ filter_coms_blacklist(hk.text) => ~hk.wrote

\* C14: a global name at an address inside the program range is changed to a
\* name that is not a generator default: push_name(address, new name) is
\* called once.
C14_RenamePushedOnce ==
    /\ hk.op = "renamed"
    /\ hk.ea >= MinEA /\ hk.ea <= MaxEA
    /\ ~hk.is_local_name
    /\ ~IsDefaultLocalName(hk.new_name)
    => hk.calls = <<Payload(hk.ea, hk.new_name)>>

\* C15: name_blacklist(name) is true exactly when name begins with one of
\* sub_, dword_, unk_, byte_, word_, loc_.
C15_BlacklistIsPrefixTest ==
    hk.op = "name_blacklist" => hk.result = IsDefaultLocalName(hk.name)

\* C16: a session whose sample id could not be resolved (not found and not
\* created, or the bootstrap failed part-way) is not online after get_online,
\* and a request made on it puts nothing on the wire.
C16_NoTrafficWithoutSample ==
    /\ cl.op = "get_online" /\ skel_conn.sample_id # "id" => ~skel_conn.is_online
    /\ cl.op = "poli_request" /\ ~cl.stale /\ cl.sample # "id" => cl.sends = 0

\* C17: sync_names called while the session is offline returns without
\* raising: no fetch is sent, nothing is handed to the applier, the watermark
\* is unchanged, and the worker is back at the head of its loop.
C17_OfflineSyncReturns ==
    [][(wpc = "sync" /\ wpc' # "sync" /\ ~skel_conn.is_online) =>
          /\ wpc' = "wait"
          /\ wexit' = "running"
          /\ UNCHANGED <<last_timestamp, handed_ts, comments, names, skel_conn,
                         idb, sync_req>>]_vars

C17_Witness ==
    /\ ~skel_conn.is_online
    /\ ~kill_event
    /\ wpc = "wait"
    /\ syncs_since_wake = 1
    /\ wexit = "running"
    /\ last_timestamp = Epoch

\* C18: an exception raised in the loop body is caught in run and ends the
\* loop: the worker is stopped from then on, starts no sync_names and moves no
\* watermark.
C18_ErrorEndsLoop ==
    [][/\ wexit' = "exception" => wpc' = "stopped"
       /\ wexit = "exception" =>
             UNCHANGED <<wpc, wexit, syncs_since_wake, syncs_after_kill,
                         last_timestamp, handed_ts, comments, names>>]_vars

C18_Witness ==
    /\ wexit = "exception"
    /\ wpc = "stopped"
    /\ update_event
    /\ ~kill_event

\* C19: the workspace is written only by the mutation thread, either by the
\* analyst or by the callback the worker handed to execute_sync, and the
\* worker does not move while its callback is pending.
C19_WritesOnMutationThread ==
    [][/\ idb' # idb =>
             /\ mpc = "idle" /\ mpc' = "idle"
             /\ wpc' = wpc
             /\ \/ /\ sync_req = "posted" /\ sync_req' = "done"
                   /\ wpc \in {"comment_wait", "force_wait", "ask_wait"}
                \/ edits' = edits + 1
       /\ sync_req = "posted" => wpc' = wpc]_vars

C19_Witness ==
    /\ wpc = "comment_wait"
    /\ sync_req = "done"
    /\ \E ea \in Addrs : idb.rpt[ea] = XText

\* C20: after end_skelenox has closed the agent's session, the session is
\* offline with no sample id, it does not become online again and no request
\* is sent on it, whatever the worker's request in progress does.
C20_NoUseAfterTeardown ==
    td.torn =>
        /\ ~skel_conn.is_online
        /\ skel_conn.sample_id = "None"
        /\ ~td.sent_after
        /\ ~td.online_after
\* C21: push_comment and push_name return true exactly when the server
\* accepted the annotation, and false when it rejected it or when no payload
\* was given.
C21_ReturnReflectsAnswer ==
    hk.op \in {"push_comment", "push_name"} /\ hk.returned =>
        (hk.ret <=> (hk.given /\ hk.accepted))

\* C22: a rename event at an address outside [MinEA, MaxEA], and a rename of
\* a local (stack-frame) name at any address, never results in a push_name
\* call.
C22_NoPushOutsideOrLocal ==
    hk.op = "renamed" /\ (hk.ea < MinEA \/ hk.ea > MaxEA \/ hk.is_local_name) =>
        hk.calls = <<>>

\* renamed has run for a global name the blacklist lets through, at an address
\* past MaxEA.
C22_Witness ==
    /\ hk.op = "renamed"
    /\ hk.ea > MaxEA
    /\ ~hk.is_local_name
    /\ hk.new_name = FooName
    /\ hk.calls = <<>>
    /\ hk.exc = "none"

\* C23: execute_comment schedules exactly one synchronized write, of the
\* repeatable comment, when the incoming text differs from both the plain and
\* the repeatable comment at the address; when it equals either of them it
\* schedules no write and the workspace is unchanged.
C23_WriteIffDiffersFromBoth ==
    ap.pass # 0 /\ ap.lastc.seen =>
        LET b == ap.lastc.before
            a == ap.lastc.c.address
            d == ap.lastc.c.data
        IN IF d # b.cmt[a] /\ d # b.rpt[a]
           THEN /\ ap.lastc.writes = 1
                /\ ap.lastc.after = [b EXCEPT !.rpt[a] = encode_replace(d)]
           ELSE /\ ap.lastc.writes = 0
                /\ ap.lastc.after = b

\* execute_comment has written a text that was in neither comment slot.
C23_Witness ==
    /\ ap.pass # 0
    /\ ap.lastc.seen
    /\ ap.lastc.c.data = XText
    /\ ap.lastc.before.cmt[ap.lastc.c.address] = NoText
    /\ ap.lastc.before.rpt[ap.lastc.c.address] = YText
    /\ ap.lastc.writes = 1
    /\ idb.rpt[ap.lastc.c.address] = XText

\* C24: when the local name at the address already equals the incoming remote
\* name, execute_rename is a no-op: it shows no prompt and makes no rename
\* call on the workspace, for every such name, generator-default ones
\* included.
C24_EqualNameIsNoOp ==
    ap.pass # 0 /\ ap.last.old # NoText /\ ap.last.old = ap.last.data =>
        /\ ~ap.last.asked
        /\ ap.last.renames = 0
        /\ ap.last.new = ap.last.old

\* C25: when the analyst declines a rename confirmation, the workspace is
\* left as it was and no error ends the batch: the loop goes on to the next
\* annotation of the same pass, and the watermark covers the declined one.
C25_DeclineIsNoOp ==
    [][(/\ ap.pass \in {1, 2}
        /\ ap.i > Len(comments)
        /\ ap'.i = ap.i + 1
        /\ ap'.last.asked
        /\ ap'.last.answer # 1)
       => /\ idb' = idb
          /\ ap'.pass = ap.pass
          /\ ap'.last.new = ap'.last.old
          /\ last_timestamp' >= Stamp(names[ap.i - Len(comments)])]_vars

\* A confirmation has been declined and the batch has another name to hand
\* to execute_rename.
C25_Witness ==
    /\ ap.pass = 1
    /\ ap.last.old # NoText
    /\ ap.last.asked
    /\ ap.last.answer = 0
    /\ ap.i = ap.last.i + 1
    /\ ap.i <= Len(comments) + Len(names)
    /\ idb.name[ap.last.n.address] = ap.last.old
    /\ ap.last.old # ap.last.data
    /\ last_timestamp >= Stamp(ap.last.n)

\* C26: during the initial bulk sync (send_names, then send_comments) a
\* failure while pushing one annotation does not prevent the remaining names
\* and comments from being pushed: every annotation the bulk sync has to send
\* gets its push call.
C26_BulkSyncGoesOn ==
    hk.op = "initial_sync" => hk.calls = hk.intended

\* C27: on a type change the value handed to push_type is always a type
\* string: the local type string with the resolved symbol name put in after
\* its calling-convention marker when it contains one, the local type string
\* itself when it contains none; push_type is never called with an absent
\* type.
C27_TypePushedIsString ==
    hk.op = "SetType" =>
        \A i \in 1..Len(hk.calls) :
            LET d == hk.calls[i].data
                lname == IF hk.truename = NoText THEN DefaultName
                         ELSE hk.truename
            IN /\ d # NoText
               /\ IF \E k \in 1..Len(cconventions) :
                         Contains(hk.newtype, cconventions[k])
                  THEN /\ Contains(d, lname)
                       /\ Len(d) > Len(hk.newtype)
                  ELSE d = hk.newtype

\* C28: a workspace write the applier makes for a remote annotation (the
\* repeatable comment of execute_comment, the rename of execute_rename) does
\* not make the hooks push that same annotation back to the server.
C28_NoEcho ==
    hk.op \in {"applied_comment", "applied_name"} =>
        \A i \in 1..Len(hk.calls) : hk.calls[i].data # hk.text

\* C30: poli_request never transmits on a session whose is_online flag is
\* false: a call made while offline raises before anything is sent, and on
\* the retry path nothing is sent when the reconnect (get_online) has failed.
C30_NoSendWhileOffline ==
    cl.op = "poli_request" =>
        /\ ~cl.online => cl.exc = "IOError" /\ cl.sends = 0
        /\ cl.offline_sends = 0

\* The comments agent a has still to handle: those in its queue and those
\* its next fetch will be served.
PeerPending(a) == peers.queue[a] \o peer_fetch(peers, a)

\* No comment an agent has still to handle would make it write its workspace
\* (and so push).
PeersQuiet ==
    \A a \in Agents : \A i \in 1..Len(PeerPending(a)) :
        \/ peers.idb[a].cmt[PeerPending(a)[i].address] = PeerPending(a)[i].data
        \/ peers.idb[a].rpt[PeerPending(a)[i].address] = PeerPending(a)[i].data

\* Both workspaces show the same comment texts at every address.
PeersAgree ==
    \A addr \in Addrs :
        {peers.idb["A"].cmt[addr], peers.idb["A"].rpt[addr]} \ {NoText}
            = {peers.idb["B"].cmt[addr], peers.idb["B"].rpt[addr]} \ {NoText}

\* The list the server would have to keep is longer than MaxLog.
Saturated ==
    \E a \in Agents :
        /\ peers.queue[a] # <<>>
        /\ Len(peers.server)
           + Len(applied_comment_pushes(peers.idb[a], peers.queue[a][1])) > MaxLog

\* C29: with two agents on the same server, each running its sync worker and
\* its hooks, once both analysts have stopped editing the system eventually
\* is quiescent: no agent pushes any more, no workspace changes any more, and
\* both workspaces show the same comment at every annotated address.
\* (Behaviours in which the server's list outgrows MaxLog are left aside.)
C29_EventuallyQuiescent ==
    \/ <>[](PeersQuiet /\ PeersAgree)
    \/ <>Saturated


\* The timer registered by idaapi.register_timer fires again after every
\* self.delay while its callback returns the delay, and the worker thread is
\* scheduled: the timer's callback is taken whenever it stays due.
timer_tick == update_check \/ update_set

FairSpecTimer ==
    /\ FairSpec
    /\ WF_vars(timer_tick)

\* The agent is not stopped, its session is online and no error has ended run.
Undisturbed ==
    /\ ~kill_event
    /\ mpc \in {"idle", "update_set"}
    /\ wexit = "running"
    /\ skel_conn.is_online

\* C31: if the agent is never stopped, the session stays online and no error
\* occurs, then with the timer and the worker scheduled fairly the worker is
\* about to call sync_names infinitely often, every set of the signal by the
\* timer is followed by a sync_names call, and a worker blocked on the signal
\* always wakes.
C31_EveryTickIsSynced ==
    []Undisturbed =>
        /\ []<>(wpc = "sync")
        /\ (mpc = "update_set") ~> (wpc = "sync")
        /\ (wpc = "wait") ~> (wpc = "clear")

\* The timer has set the signal again between the worker's clear and its
\* sync_names call, after a sync_names that already ran.
C31_Witness ==
    /\ Undisturbed
    /\ wpc = "sync"
    /\ update_event
    /\ wakes_since_set = 0
    /\ handed_ts # {}

====
